---- MODULE Spec2Model ----
(***************************************************************************)
(* Box-head post-processing of maskrcnn_benchmark                          *)
(* (modeling/roi_heads/box_head/inference.py): PostProcessor.__init__,     *)
(* make_roi_box_post_processor, PostProcessor.forward, prepare_boxlist and *)
(* filter_results.                                                         *)
(*                                                                         *)
(* Numbers.  Scores, thresholds and IoU thresholds are fixed-point         *)
(* thousandths (0.05 is 50, 0.5 is 500).  Box coordinates are integer      *)
(* pixels.  A 2-D tensor is a record [r, c, d]: r rows, c columns and the  *)
(* row-major sequence d of its r*c elements, so that view/reshape/split    *)
(* act on it as torch does.                                                *)
(*                                                                         *)
(* BoxList, BoxCoder.decode, boxlist_nms and cat_boxlist live in           *)
(* maskrcnn_benchmark.structures / modeling.box_coder; they are modelled   *)
(* from the specification (sections 3, 4.1, 4.3, 4.4): BoxCollection,      *)
(* BoxDecoder, BoxClipper and the greedy NMS of PerClassSuppressor.        *)
(* decode is handed the regression and the reference boxes only, so the    *)
(* one shape it can refuse is a column count that is no multiple of 4.     *)
(***************************************************************************)
EXTENDS Integers, Sequences, FiniteSets, TLC

VARIABLES pc, self, call, class_prob, proposals, idx, results, err, decoded

vars == <<pc, self, call, class_prob, proposals, idx, results, err, decoded>>

\* ------------------------------------------------------------- bounds
\* Largest number of proposals of one image.
MaxProposals == 3
\* Largest number of images of one batch.
MaxImages == 2
\* Largest number of class-score columns (background included).
MaxClasses == 3

\* ------------------------------------------------------- small helpers
None == [none |-> TRUE]

Ok(v) == [ok |-> TRUE, val |-> v]

Err(e) == [ok |-> FALSE, err |-> e]

Min(a, b) == IF a <= b THEN a ELSE b

Max(a, b) == IF a >= b THEN a ELSE b

RECURSIVE SumSeq(_)
SumSeq(s) == IF s = <<>> THEN 0 ELSE Head(s) + SumSeq(Tail(s))

\* mask.nonzero().squeeze(1): the positions (1-based here) where mask is TRUE,
\* ascending.
RECURSIVE NonzeroFrom(_, _)
NonzeroFrom(mask, k) ==
  IF k > Len(mask) THEN <<>>
  ELSE IF mask[k] THEN <<k>> \o NonzeroFrom(mask, k + 1)
  ELSE NonzeroFrom(mask, k + 1)

Nonzero(mask) == NonzeroFrom(mask, 1)

\* ------------------------------------------------------------ tensors
Tensor(r, c, d) == [r |-> r, c |-> c, d |-> d]

\* Element (i, k) of a tensor, both 0-based as in the source.
At(t, i, k) == t.d[i * t.c + k + 1]

\* Rows lo (inclusive) to hi (exclusive) of a tensor.
RowSlice(t, lo, hi) ==
  Tensor(hi - lo, t.c, [p \in 1..((hi - lo) * t.c) |-> t.d[lo * t.c + p]])

\* tensor.view(n, -1) / reshape(n, -1): torch refuses an inferred dimension
\* when the known one is 0 (ambiguous) or does not divide the element count.
ViewRows(t, n) ==
  LET numel == t.r * t.c
  IN IF n = 0 THEN Err("RuntimeError")
     ELSE IF numel % n # 0 THEN Err("RuntimeError")
     ELSE Ok(Tensor(n, numel \div n, t.d))

\* tensor.reshape(-1, c): c > 0; fails when c does not divide the element count.
ReshapeCols(t, c) ==
  LET numel == t.r * t.c
  IN IF numel % c # 0 THEN Err("RuntimeError")
     ELSE Ok(Tensor(numel \div c, c, t.d))

\* tensor[:, -4:]: the last four columns (all of them when there are fewer).
LastFourCols(t) ==
  LET c2 == Min(t.c, 4)
  IN Tensor(t.r, c2,
            [p \in 1..(t.r * c2) |->
               At(t, (p - 1) \div c2, (t.c - c2) + ((p - 1) % c2))])

\* tensor.repeat(1, m): every row written m times side by side.
RepeatCols(t, m) ==
  Tensor(t.r, t.c * m,
         [p \in 1..(t.r * t.c * m) |->
            At(t, (p - 1) \div (t.c * m), ((p - 1) % (t.c * m)) % t.c)])

\* tensor.split(sizes, dim=0): contiguous row blocks, in order; torch raises
\* unless the sizes sum to the number of rows.
Offset(sizes, i) == SumSeq(SubSeq(sizes, 1, i - 1))

Split(t, sizes) ==
  IF SumSeq(sizes) # t.r THEN Err("RuntimeError")
  ELSE Ok([i \in 1..Len(sizes) |->
             RowSlice(t, Offset(sizes, i), Offset(sizes, i) + sizes[i])])

\* ------------------------------------------------------------ softmax
\* exp() in thousandths on the arguments (thousandths) the model uses.
ExpMilli(q) ==
  CASE q = 0 -> 1000
    [] q = 1000 -> 2718
    [] q = 2000 -> 7389
    [] q = 3000 -> 20086
    [] q = 4000 -> 54598
    [] q = 4135 -> 62500

\* F.softmax(class_logits, -1): each row normalised on its own.
Softmax(t) ==
  LET e(i, k) == ExpMilli(1000 * At(t, i, k))
      RECURSIVE rowsum(_, _)
      rowsum(i, k) == IF k = t.c THEN 0 ELSE e(i, k) + rowsum(i, k + 1)
  IN Tensor(t.r, t.c,
            [p \in 1..(t.r * t.c) |->
               (e((p - 1) \div t.c, (p - 1) % t.c) * 1000)
                  \div rowsum((p - 1) \div t.c, 0)])

\* ------------------------------------------------------------ BoxList
\* A BoxList: its boxes (x1, y1, x2, y2), the image size (width, height) and
\* its extra fields, index-aligned with the boxes.
BoxList(bbox, size, fields) == [bbox |-> bbox, size |-> size, fields |-> fields]

\* The rows of an [n, 4] tensor as boxes.
BoxRows(t) ==
  [i \in 1..t.r |-> <<At(t, i - 1, 0), At(t, i - 1, 1), At(t, i - 1, 2), At(t, i - 1, 3)>>]

\* boxlist[keep]: the boxes and every field at the positions keep, in that order.
IndexBoxList(b, keep) ==
  BoxList([k \in 1..Len(keep) |-> b.bbox[keep[k]]], b.size,
          [f \in DOMAIN b.fields |-> [k \in 1..Len(keep) |-> b.fields[f][keep[k]]]])

\* boxlist.clip_to_image(remove_empty=False): every coordinate clamped into the
\* image, no box dropped.
ClipBox(b, size) ==
  <<Max(0, Min(b[1], size[1] - 1)), Max(0, Min(b[2], size[2] - 1)),
    Max(0, Min(b[3], size[1] - 1)), Max(0, Min(b[4], size[2] - 1))>>

clip_to_image(b) ==
  BoxList([k \in 1..Len(b.bbox) |-> ClipBox(b.bbox[k], b.size)], b.size, b.fields)

\* cat_boxlist: the boxes and fields of the lists, one after the other.
RECURSIVE cat_boxlist(_)
cat_boxlist(bs) ==
  IF Len(bs) = 1 THEN bs[1]
  ELSE LET rest == cat_boxlist(Tail(bs))
       IN BoxList(bs[1].bbox \o rest.bbox, bs[1].size,
                  [f \in DOMAIN bs[1].fields |-> bs[1].fields[f] \o rest.fields[f]])

\* ----------------------------------------------------------- BoxCoder
\* Clamp of dw/ww and dh/wh before exp: log(1000/16), in thousandths.
BboxXformClip == 4135

\* One delta (dx, dy, dw, dh) applied to the reference box R under the weights
\* (wx, wy, ww, wh); decoding the zero delta gives R back.
DecodeOne(weights, R, dl) ==
  LET w == R[3] - R[1]
      h == R[4] - R[2]
      pw == (ExpMilli(Min((dl[3] * 1000) \div weights[3], BboxXformClip)) * w) \div 1000
      ph == (ExpMilli(Min((dl[4] * 1000) \div weights[4], BboxXformClip)) * h) \div 1000
      x1 == R[1] + ((dl[1] * w) \div weights[1]) + ((w - pw) \div 2)
      y1 == R[2] + ((dl[2] * h) \div weights[2]) + ((h - ph) \div 2)
  IN <<x1, y1, x1 + pw, y1 + ph>>

\* box_coder.decode(rel_codes, boxes): row i of rel_codes holds one delta per
\* group of four columns, each applied to reference box i.
decode(weights, rel_codes, boxes) ==
  IF rel_codes.c % 4 # 0 \/ rel_codes.r # Len(boxes) THEN Err("ShapeMismatch")
  ELSE Ok(Tensor(rel_codes.r, rel_codes.c,
         [p \in 1..(rel_codes.r * rel_codes.c) |->
            LET i == (p - 1) \div rel_codes.c
                k == (p - 1) % rel_codes.c
                g == k \div 4
            IN DecodeOne(weights, boxes[i + 1],
                 <<At(rel_codes, i, 4 * g), At(rel_codes, i, 4 * g + 1),
                   At(rel_codes, i, 4 * g + 2), At(rel_codes, i, 4 * g + 3)>>)[(k % 4) + 1]]))

\* ---------------------------------------------------------------- NMS
Area(b) == Max(0, b[3] - b[1]) * Max(0, b[4] - b[2])

Intersection(a, b) ==
  Max(0, Min(a[3], b[3]) - Max(a[1], b[1])) * Max(0, Min(a[4], b[4]) - Max(a[2], b[2]))

\* IoU(a, b) > thresh/1000; a zero-area box has IoU 0 with anything.
IoUAbove(a, b, thresh) ==
  IF Area(a) = 0 \/ Area(b) = 0 THEN 0 > thresh
  ELSE Intersection(a, b) * 1000 > thresh * (Area(a) + Area(b) - Intersection(a, b))

\* The positions of scores by score descending, ties by position ascending.
RECURSIVE SortDesc(_, _)
SortDesc(scores, left) ==
  IF left = {} THEN <<>>
  ELSE LET i == CHOOSE a \in left :
                  \A b \in left : scores[a] > scores[b] \/ (scores[a] = scores[b] /\ a <= b)
       IN <<i>> \o SortDesc(scores, left \ {i})

\* Greedy suppression over the ordered candidates: take the first, drop the
\* remaining ones whose IoU with it is above the threshold, repeat.
RECURSIVE Greedy(_, _, _)
Greedy(bbox, order, thresh) ==
  IF order = <<>> THEN <<>>
  ELSE LET i == Head(order)
           rest == Tail(order)
           left == Nonzero([k \in 1..Len(rest) |-> ~IoUAbove(bbox[i], bbox[rest[k]], thresh)])
       IN <<i>> \o Greedy(bbox, [k \in 1..Len(left) |-> rest[left[k]]], thresh)

\* boxlist_nms(boxlist, nms_thresh): the kept boxes, highest score first.
boxlist_nms(b, thresh) ==
  IndexBoxList(b, Greedy(b.bbox, SortDesc(b.fields.scores, 1..Len(b.bbox)), thresh))

\* ----------------------------------------------------- PostProcessor
\* BoxCoder(weights=(10., 10., 5., 5.)), the coder __init__ builds when it is
\* given none.
DefaultWeights == <<10, 10, 5, 5>>

\* PostProcessor.__init__: the fields of the new instance, stored as given.
PostProcessor(score_thresh, nms, detections_per_img, box_coder, cls_agnostic_bbox_reg, bbox_aug_enabled) ==
  [score_thresh |-> score_thresh,
   nms |-> nms,
   detections_per_img |-> detections_per_img,
   box_coder |-> IF box_coder = None THEN DefaultWeights ELSE box_coder,
   cls_agnostic_bbox_reg |-> cls_agnostic_bbox_reg,
   bbox_aug_enabled |-> bbox_aug_enabled]

\* prepare_boxlist: the decoded boxes as rows of four, the scores flattened.
prepare_boxlist(boxes, scores, image_shape) ==
  LET b == ReshapeCols(boxes, 4)
  IN IF ~b.ok THEN b
     ELSE Ok(BoxList(BoxRows(b.val), image_shape, [scores |-> scores.d]))

\* Mutant of AboveThresh: the comparison made non-strict.
AtLeastThresh(score, score_thresh) == score >= score_thresh

\* scores > self.score_thresh
AboveThresh(score, score_thresh) == score > score_thresh

\* Lines 129-133 of filter_results for class j: the proposals whose class-j
\* score passes the threshold, with their class-j boxes and scores.  boxes is
\* the box array seen as rows of num_classes boxes, scores as rows of
\* num_classes scores; indexing a row boxes does not have raises.
ClassCandidates(slf, boxlist, num_classes, j) ==
  LET nrows == Len(boxlist.fields.scores) \div num_classes
      brows == Len(boxlist.bbox) \div num_classes
      inds == Nonzero([i \in 1..nrows |->
                AboveThresh(boxlist.fields.scores[(i - 1) * num_classes + j + 1],
                            slf.score_thresh)])
  IN IF \E k \in 1..Len(inds) : inds[k] > brows THEN Err("IndexError")
     ELSE Ok(BoxList([k \in 1..Len(inds) |-> boxlist.bbox[(inds[k] - 1) * num_classes + j + 1]],
                     boxlist.size,
                     [scores |-> [k \in 1..Len(inds) |->
                                    boxlist.fields.scores[(inds[k] - 1) * num_classes + j + 1]]]))

\* Mutant of SuppressClass: the score threshold handed to NMS in place of nms.
SuppressClassByScoreThresh(slf, boxlist_for_class) ==
  boxlist_nms(boxlist_for_class, slf.score_thresh)

\* Mutant of SuppressClass: the NMS call left out.
SuppressClassSkipped(slf, boxlist_for_class) == boxlist_for_class

\* Lines 134-136: the NMS call on the candidates of one class.
SuppressClass(slf, boxlist_for_class) == boxlist_nms(boxlist_for_class, slf.nms)

\* Lines 129-141: candidates, NMS, then the label j on every survivor.
ClassDetections(slf, boxlist, num_classes, j) ==
  LET c == ClassCandidates(slf, boxlist, num_classes, j)
  IN IF ~c.ok THEN c
     ELSE LET kept == SuppressClass(slf, c.val)
          IN Ok(BoxList(kept.bbox, kept.size,
                        [scores |-> kept.fields.scores,
                         labels |-> [k \in 1..Len(kept.bbox) |-> j]]))

\* Mutant of ClassRange: range(num_classes), background included.
ClassRangeWithBackground(num_classes) == [k \in 1..num_classes |-> k - 1]

\* range(1, num_classes): background class 0 is skipped.
ClassRange(num_classes) == [k \in 1..(num_classes - 1) |-> k]

\* Lines 120-143: the reshapes, the per-class loop, cat_boxlist.
MergedDetections(slf, boxlist, num_classes) ==
  IF Len(boxlist.bbox) % num_classes # 0 \/ Len(boxlist.fields.scores) % num_classes # 0
  THEN Err("RuntimeError")
  ELSE LET js == ClassRange(num_classes)
           ks == 1..Len(js)
           per == [k \in ks |-> ClassDetections(slf, boxlist, num_classes, js[k])]
       IN IF \E k \in ks : ~per[k].ok
          THEN Err((per[CHOOSE k \in ks : ~per[k].ok /\ \A i \in ks : i < k => per[i].ok]).err)
          ELSE Ok(cat_boxlist([k \in ks |-> per[k].val]))

\* torch.kthvalue(s, k): the k-th smallest element; k outside 1..len raises.
kthvalue(s, k) ==
  IF k < 1 \/ k > Len(s) THEN Err("RuntimeError")
  ELSE Ok(CHOOSE v \in {s[i] : i \in 1..Len(s)} :
            /\ Cardinality({i \in 1..Len(s) : s[i] < v}) < k
            /\ Cardinality({i \in 1..Len(s) : s[i] <= v}) >= k)

\* Mutant of CapApplies: the "> 0" test dropped.
CapAppliesUnchecked(slf, number_of_detections) ==
  number_of_detections > slf.detections_per_img

\* number_of_detections > self.detections_per_img > 0
CapApplies(slf, number_of_detections) ==
  number_of_detections > slf.detections_per_img /\ slf.detections_per_img > 0

\* Mutant of AtLeastCutoff: the comparison made strict.
AboveCutoff(score, image_thresh) == score > image_thresh

\* cls_scores >= image_thresh
AtLeastCutoff(score, image_thresh) == score >= image_thresh

\* Lines 144-155: the limit to detections_per_img over all classes.
LimitDetections(slf, result) ==
  LET number_of_detections == Len(result.bbox)
  IN IF CapApplies(slf, number_of_detections)
     THEN LET cls_scores == result.fields.scores
              image_thresh == kthvalue(cls_scores,
                                       number_of_detections - slf.detections_per_img + 1)
          IN IF ~image_thresh.ok THEN image_thresh
             ELSE Ok(IndexBoxList(result,
                       Nonzero([i \in 1..number_of_detections |->
                                  AtLeastCutoff(cls_scores[i], image_thresh.val)])))
     ELSE Ok(result)

\* filter_results: threshold and NMS per class, then the limit.
filter_results(slf, boxlist, num_classes) ==
  LET merged == MergedDetections(slf, boxlist, num_classes)
  IN IF ~merged.ok THEN merged ELSE LimitDetections(slf, merged.val)

\* make_roi_box_post_processor(cfg): every argument read from the config node.
make_roi_box_post_processor(cfg) ==
  PostProcessor(cfg.SCORE_THRESH, cfg.NMS, cfg.DETECTIONS_PER_IMG, cfg.BBOX_REG_WEIGHTS,
                cfg.CLS_AGNOSTIC_BBOX_REG, cfg.BBOX_AUG_ENABLED)

\* Mutant of ShouldFilter: final_iter ignored.
ShouldFilterIgnoringIter(slf, final_iter) == ~slf.bbox_aug_enabled

\* if not self.bbox_aug_enabled and final_iter
ShouldFilter(slf, final_iter) == ~slf.bbox_aug_enabled /\ final_iter

\* [len(box) for box in boxes]
BoxesPerImage(boxes) == [i \in 1..Len(boxes) |-> Len(boxes[i].bbox)]

\* torch.cat([a.bbox for a in boxes], dim=0)
RECURSIVE ConcatBoxes(_)
ConcatBoxes(boxes) ==
  IF boxes = <<>> THEN <<>> ELSE Head(boxes).bbox \o ConcatBoxes(Tail(boxes))

\* forward, lines 56-77: softmax, the view and decode of the regression, the
\* class-agnostic repeat, and the two splits.  The outcome says whether the
\* call got through, with which error if not, and whether box_coder.decode
\* had returned by then.
ForwardPrologue(slf, x, boxes) ==
  LET prob == Softmax(x.class_logits)
      boxes_per_image == BoxesPerImage(boxes)
      concat_boxes == ConcatBoxes(boxes)
      box_regression == IF slf.cls_agnostic_bbox_reg
                        THEN LastFourCols(x.box_regression) ELSE x.box_regression
      viewed == ViewRows(box_regression, SumSeq(boxes_per_image))
      decodedBoxes == decode(slf.box_coder, viewed.val, concat_boxes)
      repeated == IF slf.cls_agnostic_bbox_reg
                  THEN RepeatCols(decodedBoxes.val, prob.c) ELSE decodedBoxes.val
      psplit == Split(repeated, boxes_per_image)
      csplit == Split(prob, boxes_per_image)
      fail(e, d) == [ok |-> FALSE, err |-> e, decoded |-> d,
                     proposals |-> <<>>, class_prob |-> <<>>]
  IN IF ~viewed.ok THEN fail(viewed.err, FALSE)
     ELSE IF ~decodedBoxes.ok THEN fail(decodedBoxes.err, FALSE)
     ELSE IF ~psplit.ok THEN fail(psplit.err, TRUE)
     ELSE IF ~csplit.ok THEN fail(csplit.err, TRUE)
     ELSE [ok |-> TRUE, err |-> "", decoded |-> TRUE,
           proposals |-> psplit.val, class_prob |-> csplit.val]

\* forward, lines 83-84: the image's BoxList, clipped.
ClippedBoxList(prob, boxes_per_img, image_shape) ==
  LET b == prepare_boxlist(boxes_per_img, prob, image_shape)
  IN IF ~b.ok THEN b ELSE Ok(clip_to_image(b.val))

\* forward, lines 83-86: one pass of the loop over the images.
ImageResult(slf, prob, boxes_per_img, image_shape, final_iter, num_classes) ==
  LET b == ClippedBoxList(prob, boxes_per_img, image_shape)
  IN IF ~b.ok THEN b
     ELSE IF ShouldFilter(slf, final_iter) THEN filter_results(slf, b.val, num_classes)
     ELSE b

\* ------------------------------------------------------------- inputs
ImageSize == <<8, 8>>

Layouts == {"chain", "edge"}

\* Reference box of proposal i (1-based over the batch) under a layout: a chain
\* of boxes each overlapping the next, or one box on the image's right edge
\* repeated (clipped to a narrower box, and to a zero-area one once moved).
RefBox(layout, i) ==
  CASE layout = "chain" -> <<i - 1, 0, i + 3, 4>>
    [] layout = "edge" -> <<6, 0, 8, 4>>

\* The reference BoxLists of images with the proposal counts ns.
RefBoxLists(layout, ns) ==
  [m \in 1..Len(ns) |->
     BoxList([i \in 1..ns[m] |-> RefBox(layout, Offset(ns, m) + i)], ImageSize, <<>>)]

\* A logit row of c classes: 2 at column hot, 0 elsewhere (hot = c: all 0).
LogitRow(hot, c) == [k \in 1..c |-> IF k - 1 = hot THEN 2 ELSE 0]

\* The [Len(hots), c] logits whose row i is LogitRow(hots[i], c).
Logits(hots, c) ==
  Tensor(Len(hots), c,
         [p \in 1..(Len(hots) * c) |-> LogitRow(hots[((p - 1) \div c) + 1], c)[((p - 1) % c) + 1]])

DeltaPatterns == {"zero", "shift"}

\* Regression element (i, k): all zero; dx = 10 in the odd groups of four
\* (a move by one box width under weight 10); or dw = 10 in the odd groups.
DeltaAt(pattern, i, k) ==
  CASE pattern = "zero" -> 0
    [] pattern = "shift" -> IF k % 4 = 0 /\ (k \div 4) % 2 = 1 THEN 10 ELSE 0
    [] pattern = "grow" -> IF k % 4 = 2 /\ (k \div 4) % 2 = 1 THEN 10 ELSE 0

Deltas(pattern, r, c) ==
  Tensor(r, c, [p \in 1..(r * c) |-> DeltaAt(pattern, (p - 1) \div c, (p - 1) % c)])

Call(class_logits, box_regression, boxes, final_iter) ==
  [x |-> [class_logits |-> class_logits, box_regression |-> box_regression],
   boxes |-> boxes, final_iter |-> final_iter]

\* Sequences over S of length 0..n.
SeqsUpTo(S, n) == UNION {[1..k -> S] : k \in 0..n}

\* Well-shaped calls on one image: any proposal count, class count, logits,
\* layout and regression pattern (zero, or a move of the odd classes' boxes).
ValueCalls ==
  {Call(Logits(hots, c), Deltas(dp, Len(hots), 4 * c),
        RefBoxLists(layout, <<Len(hots)>>), TRUE) :
     <<c, hots, layout, dp>> \in
       UNION {{c} \X SeqsUpTo(0..c, MaxProposals) \X Layouts \X DeltaPatterns :
              c \in 2..MaxClasses}}

\* Row i of the logits of a shape call: hot column i mod (c + 1).
ShapeHots(rows, c) == [i \in 1..rows |-> i % (c + 1)]

\* The shapes of the arrays of a call, for n proposals and c classes: rows of
\* the logits beyond n, rows of the regression as a multiple of n, and whether
\* the regression has 4c columns (else 4).
Shapes ==
  {[extra |-> 0, rmul |-> 1, percls |-> TRUE], [extra |-> 0, rmul |-> 1, percls |-> FALSE],
   [extra |-> 1, rmul |-> 1, percls |-> TRUE], [extra |-> 0, rmul |-> 2, percls |-> TRUE]}

\* Calls on one or more images whose arrays may disagree with the proposal
\* count and the class count.
ShapeCalls ==
  {Call(Logits(ShapeHots(SumSeq(ns) + sh.extra, c), c),
        Deltas("grow", SumSeq(ns) * sh.rmul, IF sh.percls THEN 4 * c ELSE 4),
        RefBoxLists("chain", ns), final_iter) :
     <<ns, c, sh, final_iter>> \in
       UNION {(SeqsUpTo(0..MaxProposals, MaxImages) \ {<<>>}) \X {c} \X Shapes \X BOOLEAN :
              c \in 2..MaxClasses}}

ValueConfigs ==
  {PostProcessor(tn[1], tn[2], d, None, FALSE, FALSE) :
     <<tn, d>> \in {<<50, 500>>, <<500, 300>>, <<500, 500>>} \X {0, 2}}

ShapeConfigs ==
  {PostProcessor(t, 500, 100, None, a, g) :
     <<t, a, g>> \in {-100, 50} \X BOOLEAN \X BOOLEAN}

\* The config nodes make_roi_box_post_processor is given: the defaults, and
\* one with other thresholds.
CfgNodes ==
  {[USE_FPN |-> TRUE, BBOX_REG_WEIGHTS |-> <<10, 10, 5, 5>>, SCORE_THRESH |-> 50,
    NMS |-> 500, DETECTIONS_PER_IMG |-> 100, CLS_AGNOSTIC_BBOX_REG |-> FALSE,
    BBOX_AUG_ENABLED |-> FALSE],
   [USE_FPN |-> FALSE, BBOX_REG_WEIGHTS |-> <<10, 10, 5, 5>>, SCORE_THRESH |-> 500,
    NMS |-> 300, DETECTIONS_PER_IMG |-> 2, CLS_AGNOSTIC_BBOX_REG |-> FALSE,
    BBOX_AUG_ENABLED |-> FALSE]}

\* ------------------------------------------------------ state machine
Init ==
  /\ pc = "new"
  /\ self = None
  /\ call = None
  /\ class_prob = <<>>
  /\ proposals = <<>>
  /\ idx = 0
  /\ results = <<>>
  /\ err = ""
  /\ decoded = FALSE

\* PostProcessor(...) called directly.
Construct(configs) ==
  /\ pc = "new"
  /\ \E c \in configs : self' = c
  /\ pc' = "ready"
  /\ UNCHANGED <<call, class_prob, proposals, idx, results, err, decoded>>

\* make_roi_box_post_processor(cfg).
MakeRoiBoxPostProcessor ==
  /\ pc = "new"
  /\ \E cfg \in CfgNodes : self' = make_roi_box_post_processor(cfg)
  /\ pc' = "ready"
  /\ UNCHANGED <<call, class_prob, proposals, idx, results, err, decoded>>

\* forward(x, boxes, final_iter) up to the loop over the images.
ForwardBegin(calls) ==
  /\ pc = "ready"
  /\ \E c \in calls :
       LET p == ForwardPrologue(self, c.x, c.boxes)
       IN /\ call' = c
          /\ decoded' = p.decoded
          /\ err' = p.err
          /\ class_prob' = p.class_prob
          /\ proposals' = p.proposals
          /\ pc' = IF p.ok THEN "loop" ELSE "raised"
          /\ idx' = IF p.ok THEN 1 ELSE idx
  /\ results' = <<>>
  /\ UNCHANGED self

\* One pass of the loop of forward: image idx.
ForwardImage ==
  /\ pc = "loop"
  /\ idx <= Len(call.boxes)
  /\ LET r == ImageResult(self, class_prob[idx], proposals[idx], call.boxes[idx].size,
                          call.final_iter, call.x.class_logits.c)
     IN IF r.ok
        THEN /\ results' = Append(results, r.val)
             /\ idx' = idx + 1
             /\ UNCHANGED <<pc, err>>
        ELSE /\ pc' = "raised"
             /\ err' = r.err
             /\ UNCHANGED <<results, idx>>
  /\ UNCHANGED <<self, call, class_prob, proposals, decoded>>

\* return results
ForwardReturn ==
  /\ pc = "loop"
  /\ idx > Len(call.boxes)
  /\ pc' = "returned"
  /\ UNCHANGED <<self, call, class_prob, proposals, idx, results, err, decoded>>

Next ==
  \/ Construct(ValueConfigs)
  \/ MakeRoiBoxPostProcessor
  \/ ForwardBegin(ValueCalls)
  \/ ForwardImage
  \/ ForwardReturn

Spec == Init /\ [][Next]_vars

NextShapes ==
  \/ Construct(ShapeConfigs)
  \/ MakeRoiBoxPostProcessor
  \/ ForwardBegin(ShapeCalls)
  \/ ForwardImage
  \/ ForwardReturn

SpecShapes == Init /\ [][NextShapes]_vars

\* ------------------------------------------------------------- claims
\* What the formulas below speak of.
NumClasses == call.x.class_logits.c

Started == pc \in {"loop", "returned", "raised"}

InLoop == pc \in {"loop", "returned"}

Returned == pc = "returned"

FilterOn == ~self.bbox_aug_enabled /\ call.final_iter

\* The BoxList image i hands to filter_results.
InputBoxList(i) == ClippedBoxList(class_prob[i], proposals[i], call.boxes[i].size).val

\* The positions of the detections of a returned list that carry label j.
WithLabel(b, j) == {a \in 1..Len(b.bbox) : b.fields.labels[a] = j}

\* C1: among the detections of one class that filter_results returns for an
\* image, no two distinct ones have IoU above nms.
C1_NoOverlapWithinClass ==
  (Returned /\ FilterOn) =>
    \A i \in 1..Len(results) : \A a, b \in 1..Len(results[i].bbox) :
      (a # b /\ results[i].fields.labels[a] = results[i].fields.labels[b])
        => ~IoUAbove(results[i].bbox[a], results[i].bbox[b], self.nms)

\* C1 witness: with no cap in force, a class keeps at least two detections
\* and has lost at least one candidate to NMS.
C1_Witness ==
  /\ pc = "returned" /\ FilterOn /\ self.detections_per_img = 0
  /\ \E i \in 1..Len(results) : \E j \in 1..(NumClasses - 1) :
       /\ Cardinality(WithLabel(results[i], j)) >= 2
       /\ Len(ClassCandidates(self, InputBoxList(i), NumClasses, j).val.bbox)
            > Cardinality(WithLabel(results[i], j))

\* The cap-th largest of the scores sc.
CapthLargest(sc, cap) ==
  CHOOSE v \in {sc[p] : p \in 1..Len(sc)} :
    /\ Cardinality({p \in 1..Len(sc) : sc[p] > v}) < cap
    /\ Cardinality({p \in 1..Len(sc) : sc[p] >= v}) >= cap

\* C2: when the merged survivors number more than detections_per_img > 0, the
\* detections kept are exactly those scoring at least the cap-th largest
\* score: at least cap of them, exactly cap when nothing else ties the cutoff,
\* and any excess is made of detections tied at the cutoff.
C2_CapKeepsTopScores ==
  (Returned /\ FilterOn) =>
    \A i \in 1..Len(results) :
      LET m == MergedDetections(self, InputBoxList(i), NumClasses)
          sc == m.val.fields.scores
          cap == self.detections_per_img
          cut == CapthLargest(sc, cap)
          tied == Cardinality({p \in 1..Len(sc) : sc[p] = cut})
          kept == Len(results[i].bbox)
      IN (m.ok /\ Len(sc) > cap /\ cap > 0) =>
           /\ results[i] = IndexBoxList(m.val, Nonzero([p \in 1..Len(sc) |-> sc[p] >= cut]))
           /\ kept >= cap
           /\ (tied = 1 => kept = cap)
           /\ kept - cap <= tied - 1

\* C2 witness: more survivors than the cap, no tie at the cutoff, exactly cap
\* detections returned.
C2_Witness ==
  /\ pc = "returned" /\ FilterOn /\ self.detections_per_img > 0
  /\ \E i \in 1..Len(results) :
       LET sc == MergedDetections(self, InputBoxList(i), NumClasses).val.fields.scores
       IN /\ Len(sc) > self.detections_per_img
          /\ Len(results[i].bbox) = self.detections_per_img
          /\ Cardinality({p \in 1..Len(sc) :
                            sc[p] = CapthLargest(sc, self.detections_per_img)}) = 1

\* The cap over-admits on a tie: more than cap detections returned.
CapTieReached ==
  /\ pc = "returned" /\ FilterOn /\ self.detections_per_img > 0
  /\ \E i \in 1..Len(results) :
       /\ Len(results[i].bbox) > self.detections_per_img
       /\ Len(results[i].bbox)
            < Len(MergedDetections(self, InputBoxList(i), NumClasses).val.bbox)

\* C7: with detections_per_img <= 0, or no more survivors than
\* detections_per_img, filter_results returns the concatenation of the
\* per-class survivors untouched (and does not fail).
C7_NoCapKeepsAll ==
  ((Returned \/ (pc = "raised" /\ class_prob # <<>>)) /\ FilterOn) =>
    \A i \in 1..Len(call.boxes) :
      LET m == MergedDetections(self, InputBoxList(i), NumClasses)
          nocap == self.detections_per_img <= 0
                     \/ Len(m.val.bbox) <= self.detections_per_img
      IN ((i <= Len(results) \/ i = idx) /\ m.ok /\ nocap) =>
           /\ i <= Len(results) => results[i] = m.val
           /\ ~(pc = "raised" /\ i = idx)

\* C7 witness: a positive cap that the survivors do not exceed, all returned.
C7_Witness ==
  /\ pc = "returned" /\ FilterOn /\ self.detections_per_img > 0
  /\ \E i \in 1..Len(results) :
       /\ Len(results[i].bbox) = self.detections_per_img
       /\ results[i] = MergedDetections(self, InputBoxList(i), NumClasses).val

\* The same with the cap switched off: more than two survivors, all returned.
NoCapWhenZeroReached ==
  /\ pc = "returned" /\ FilterOn /\ self.detections_per_img = 0
  /\ \E i \in 1..Len(results) : Len(results[i].bbox) > 2

\* C9: the per-class NMS step applied to its own output, with the same
\* threshold, gives that output back.
C9_NmsIdempotent ==
  (Returned /\ FilterOn) =>
    \A i \in 1..Len(call.boxes) : \A j \in 1..(NumClasses - 1) :
      LET d == ClassDetections(self, InputBoxList(i), NumClasses, j)
          out == BoxList(d.val.bbox, d.val.size, [scores |-> d.val.fields.scores])
      IN d.ok => boxlist_nms(out, self.nms) = out

\* C9 witness: a class with three candidates of which NMS kept exactly two.
C9_Witness ==
  /\ pc = "returned" /\ FilterOn
  /\ \E i \in 1..Len(call.boxes) : \E j \in 1..(NumClasses - 1) :
       /\ Len(ClassCandidates(self, InputBoxList(i), NumClasses, j).val.bbox) = 3
       /\ Len(ClassDetections(self, InputBoxList(i), NumClasses, j).val.bbox) = 2

\* C10: every returned detection with label j is some proposal of the image
\* whose class-j score is above score_thresh, with that proposal's clipped
\* class-j box (columns 4j..4j+3) and class-j score; boxes, scores and labels
\* have one length.
C10_DetectionsComeFromProposals ==
  (Returned /\ FilterOn) =>
    \A i \in 1..Len(results) :
      LET r == results[i]
      IN /\ Len(r.fields.scores) = Len(r.bbox)
         /\ Len(r.fields.labels) = Len(r.bbox)
         /\ \A a \in 1..Len(r.bbox) :
              LET j == r.fields.labels[a]
              IN \E p \in 0..(class_prob[i].r - 1) :
                   /\ At(class_prob[i], p, j) > self.score_thresh
                   /\ r.fields.scores[a] = At(class_prob[i], p, j)
                   /\ r.bbox[a] =
                        ClipBox(<<At(proposals[i], p, 4 * j), At(proposals[i], p, 4 * j + 1),
                                  At(proposals[i], p, 4 * j + 2), At(proposals[i], p, 4 * j + 3)>>,
                                call.boxes[i].size)

\* C10 witness: a detection is returned while another proposal's score for
\* the same class sits exactly at score_thresh and is not.
C10_Witness ==
  /\ pc = "returned" /\ FilterOn
  /\ \E i \in 1..Len(results) : \E a \in 1..Len(results[i].bbox) :
       \E p \in 0..(class_prob[i].r - 1) :
         /\ At(class_prob[i], p, results[i].fields.labels[a]) = self.score_thresh
         /\ \A b \in 1..Len(results[i].bbox) :
              results[i].fields.labels[b] = results[i].fields.labels[a]
                => results[i].fields.scores[b] > self.score_thresh

\* The arrays of the call agree with the proposal count and the class count:
\* one logits row and one regression row per proposal, and 4 regression
\* columns per class (4 in all in class-agnostic mode).
WellShaped ==
  LET n == SumSeq(BoxesPerImage(call.boxes))
  IN /\ call.x.class_logits.r = n
     /\ call.x.box_regression.r = n
     /\ call.x.box_regression.c = IF self.cls_agnostic_bbox_reg THEN 4 ELSE 4 * NumClasses

\* The result of image i with nothing filtered: no labels, every score of
\* the image's slice, every decoded box of the slice clipped.
Unfiltered(i) ==
  /\ DOMAIN results[i].fields = {"scores"}
  /\ results[i].fields.scores = class_prob[i].d
  /\ Len(results[i].fields.scores) = Len(call.boxes[i].bbox) * NumClasses
  /\ results[i].bbox =
       [k \in 1..((proposals[i].r * proposals[i].c) \div 4) |->
          ClipBox(<<proposals[i].d[4 * k - 3], proposals[i].d[4 * k - 2],
                    proposals[i].d[4 * k - 1], proposals[i].d[4 * k]>>, call.boxes[i].size)]

\* The result of image i is what filter_results makes of its clipped BoxList.
Filtered(i) ==
  LET f == filter_results(self, InputBoxList(i), NumClasses)
  IN f.ok /\ results[i] = f.val /\ "labels" \in DOMAIN results[i].fields

C4_MismatchFailsBeforeDecode ==
  (Started /\ ~WellShaped) => (pc = "raised" /\ ~decoded)

\* C5: no PostProcessor exists whose score_thresh lies outside [0, 1].
C5_ScoreThreshInRange ==
  (self # None) => (self.score_thresh >= 0 /\ self.score_thresh <= 1000)

SliceResult(i) ==
  LET ns == BoxesPerImage(call.boxes)
      prob == Softmax(call.x.class_logits)
      reg == IF self.cls_agnostic_bbox_reg
             THEN LastFourCols(call.x.box_regression) ELSE call.x.box_regression
      dec == decode(self.box_coder, Tensor(SumSeq(ns), reg.c, reg.d),
                    ConcatBoxes(call.boxes)).val
      all == IF self.cls_agnostic_bbox_reg THEN RepeatCols(dec, NumClasses) ELSE dec
      lo == Offset(ns, i)
  IN ImageResult(self, RowSlice(prob, lo, lo + ns[i]), RowSlice(all, lo, lo + ns[i]),
                 call.boxes[i].size, call.final_iter, NumClasses)

\* C8: a well-shaped call returns one list per image, in the order of the
\* images, the i-th made from the i-th slice of the batch alone; an image
\* with no proposals gets an empty list, without error.
C8_OneResultPerImage ==
  (pc \in {"returned", "raised"} /\ WellShaped) =>
    /\ pc = "returned"
    /\ Len(results) = Len(call.boxes)
    /\ \A i \in 1..Len(results) :
         /\ results[i] = SliceResult(i).val
         /\ Len(call.boxes[i].bbox) = 0 => results[i].bbox = <<>>

\* The same, for the batches that hold at least one proposal.
SliceResultsWhenProposalsExist ==
  (pc \in {"returned", "raised"} /\ WellShaped /\ SumSeq(BoxesPerImage(call.boxes)) > 0) =>
    /\ pc = "returned"
    /\ Len(results) = Len(call.boxes)
    /\ \A i \in 1..Len(results) :
         /\ results[i] = SliceResult(i).val
         /\ Len(call.boxes[i].bbox) = 0 => results[i].bbox = <<>>

\* An image without proposals, beside one with some, got its empty list.
EmptyImageReached ==
  /\ pc = "returned" /\ WellShaped
  /\ \E i, k \in 1..Len(results) :
       Len(call.boxes[i].bbox) = 0 /\ results[i].bbox = <<>> /\ Len(results[k].bbox) > 0

====
